---- MODULE Spec2Model ----
(***************************************************************************)
(* A model of the directord component framework:                           *)
(*   - ClientStatus, the status-reporting context manager                  *)
(*     (src/director/utils.py),                                            *)
(*   - ComponentBase.set_cache on a cache shared by job threads            *)
(*     (src/directord/components/__init__.py),                             *)
(*   - the container image component's server() and client()               *)
(*     (src/components/container_image.py).                                *)
(*   - ComponentBase.blueprinter and file_blueprinter                      *)
(*     (src/directord/components/__init__.py).                             *)
(* Each part has its own specification (SpecStatus, SpecCache, SpecImage,  *)
(* SpecBlueprint) that leaves the other parts' state alone.                *)
(***************************************************************************)
EXTENDS Integers, Sequences, FiniteSets, TLC

VARIABLES
    channel,    \* the socket: the multipart messages sent so far, in order
    session,    \* per job id: the ClientStatus object and its thread's position
    cache,      \* the shared cache: per key, its entry (value, tag, expiry)
    cache0,     \* the cache as it was before any thread's call (history)
    now,        \* the clock the cache's expiry is measured against, in seconds
    thr,        \* per job thread: its cache call, position and locals
    srv,        \* the image component's server() call: inputs and outcome
    cli,        \* the image component's client() call: inputs and outcome
    file,       \* the file file_blueprinter works on: text and access
    bp          \* the blueprinter or file_blueprinter call: inputs and outcome

statusVars == <<channel, session>>
cacheVars == <<cache, cache0, now, thr>>
imageVars == <<srv, cli>>
blueprintVars == <<file, bp>>
vars == <<statusVars, cacheVars, imageVars, blueprintVars>>

----------------------------------------------------------------------------
(* Bounds *)

\* number of job ids whose sessions share the channel
MaxJobs == 2
\* number of steps the clock makes at most
MaxTicks == 2
\* number of tokens of an exec string at most
MaxTokens == 3
\* number of images of a job record at most
MaxImages == 2
\* the longest template text, in pieces
MaxContent == 2

----------------------------------------------------------------------------
(* ClientStatus: src/director/utils.py 68-94 *)

Jobs == 1..MaxJobs

\* ctx.nullbyte and ctx.job_processing, the two protocol constants
\* ClientStatus reads from its ctx
nullbyte == "NUL"
job_processing == "PROCESSING"

\* values a session body assigns to job_state and to info
JobStates == {"JOB_END", "JOB_FAILED"}
Infos == {"traceback", nullbyte}

\* socket.send_multipart(frames): the message is appended to the channel
send_multipart(chan, frames) == Append(chan, frames)

NoSession ==
    [pc |-> "none", job_state |-> nullbyte, info |-> nullbyte,
     wrote |-> FALSE, exc |-> FALSE, caller |-> "waiting"]

\* ClientStatus.__init__ followed by __enter__ (the "with" statement
\* evaluates the constructor, then enters): the fields are set to the
\* placeholder, the start message is sent, the body begins.
ClientStatusInit(j) ==
    /\ session[j].pc = "none"
    /\ session' = [session EXCEPT ![j].pc = "body",
                                  ![j].job_state = nullbyte,
                                  ![j].info = nullbyte]
    /\ channel' = send_multipart(channel, <<j, job_processing, nullbyte>>)
    /\ UNCHANGED <<cacheVars, imageVars, blueprintVars>>

\* the body of the "with" block assigns status.job_state
BodySetJobState(j, s) ==
    /\ session[j].pc = "body"
    /\ session' = [session EXCEPT ![j].job_state = s,
                                  ![j].wrote = TRUE]
    /\ UNCHANGED <<channel, cacheVars, imageVars, blueprintVars>>

\* the body of the "with" block assigns status.info
BodySetInfo(j, i) ==
    /\ session[j].pc = "body"
    /\ session' = [session EXCEPT ![j].info = i,
                                  ![j].wrote = TRUE]
    /\ UNCHANGED <<channel, cacheVars, imageVars, blueprintVars>>

\* the body ends by falling off its end: __exit__ is due, no exception
BodyReturn(j) ==
    /\ session[j].pc = "body"
    /\ session' = [session EXCEPT ![j].pc = "exiting"]
    /\ UNCHANGED <<channel, cacheVars, imageVars, blueprintVars>>

\* the body ends by raising: __exit__ is due, with the exception pending
BodyRaise(j) ==
    /\ session[j].pc = "body"
    /\ session' = [session EXCEPT ![j].pc = "exiting", ![j].exc = TRUE]
    /\ UNCHANGED <<channel, cacheVars, imageVars, blueprintVars>>

\* ClientStatus.__exit__: sends the terminal message and returns None, so a
\* pending exception is re-raised to the caller of the "with" statement.
ExitSendsStale(j) ==
    /\ session[j].pc = "exiting"
    /\ channel' = send_multipart(channel, <<j, nullbyte, nullbyte>>)
    /\ session' = [session EXCEPT
           ![j].pc = "exited",
           ![j].caller = IF session[j].exc THEN "raised" ELSE "returned"]
    /\ UNCHANGED <<cacheVars, imageVars, blueprintVars>>

ExitSkippedOnRaise(j) ==
    /\ session[j].pc = "exiting"
    /\ channel' = IF session[j].exc
                  THEN channel
                  ELSE send_multipart(channel,
                           <<j, session[j].job_state, session[j].info>>)
    /\ session' = [session EXCEPT
           ![j].pc = "exited",
           ![j].caller = IF session[j].exc THEN "raised" ELSE "returned"]
    /\ UNCHANGED <<cacheVars, imageVars, blueprintVars>>

ExitSwallows(j) ==
    /\ session[j].pc = "exiting"
    /\ channel' = send_multipart(channel,
                      <<j, session[j].job_state, session[j].info>>)
    /\ session' = [session EXCEPT
           ![j].pc = "exited",
           ![j].caller = "returned"]
    /\ UNCHANGED <<cacheVars, imageVars, blueprintVars>>

ClientStatusExit(j) ==
    /\ session[j].pc = "exiting"
    /\ channel' = send_multipart(channel,
                      <<j, session[j].job_state, session[j].info>>)
    /\ session' = [session EXCEPT
           ![j].pc = "exited",
           ![j].caller = IF session[j].exc THEN "raised" ELSE "returned"]
    /\ UNCHANGED <<cacheVars, imageVars, blueprintVars>>

----------------------------------------------------------------------------
(* The shared cache and ComponentBase.set_cache:
   src/directord/components/__init__.py 227-252 *)

\* expire=28800, the default expiry of set_cache, in seconds
DefaultExpire == 28800
\* the clock advances in steps of half the default expiry
TickSeconds == DefaultExpire \div 2

Threads == {"t1", "t2"}
Keys == {"args", "envs"}
NoTag == "None"
Tags == {NoTag, "job"}
\* the options of a call: the defaults, or a shorter expiry and a tag
CallOptions == {[expire |-> DefaultExpire, tag |-> NoTag],
                [expire |-> TickSeconds, tag |-> "job"]}

\* Values: a mapping is Dict(f), f a function from its keys to values; any
\* other value is Leaf(n).
Leaf(n) == [t |-> "leaf", v |-> n]
Dict(f) == [t |-> "dict", v |-> f]
IsDict(x) == x.t = "dict"
EmptyDict == Dict([k \in {} |-> Leaf(0)])
One(k, x) == Dict([i \in {k} |-> x])

\* utils.merge_dict(base, new): the recursive merge of two mappings. Every
\* key of either is kept; on a key of both, two mappings are merged
\* recursively and otherwise the new value wins.
RECURSIVE merge_dict(_, _)
merge_dict(base, new) ==
    IF IsDict(base) /\ IsDict(new)
    THEN Dict([k \in DOMAIN base.v \cup DOMAIN new.v |->
                 IF k \notin DOMAIN new.v THEN base.v[k]
                 ELSE IF k \notin DOMAIN base.v THEN new.v[k]
                 ELSE IF IsDict(base.v[k]) /\ IsDict(new.v[k])
                      THEN merge_dict(base.v[k], new.v[k])
                      ELSE new.v[k]])
    ELSE new

\* the value {"a": 1, "b": {"c": 2}} and the mappings the threads write
OldValue == Dict([k \in {"a", "b"} |->
                    IF k = "a" THEN Leaf(1) ELSE One("c", Leaf(2))])
NewValues == {One("b", One("d", Leaf(3))), One("a", Leaf(5))}

\* A cache entry; an absent key holds NoEntry.
NoEntry == [present |-> FALSE, value |-> EmptyDict, tag |-> NoTag, expires |-> 0]
Entry(value, tag, expires) ==
    [present |-> TRUE, value |-> value, tag |-> tag, expires |-> expires]

\* an entry reads as absent once its expiry has elapsed
Live(c, key, time) == c[key].present /\ time < c[key].expires

\* cache.get(key, default)
CacheGet(c, key, default, time) ==
    IF Live(c, key, time) THEN c[key].value ELSE default

\* cache.pop(key, default): the value returned and the cache left behind
CachePopValue(c, key, default, time) == CacheGet(c, key, default, time)
CachePopCache(c, key) == [c EXCEPT ![key] = NoEntry]

\* cache.set(key, value, tag, expire)
CacheSet(c, key, value, tag, expire, time) ==
    [c EXCEPT ![key] = Entry(value, tag, time + expire)]

IdleThread ==
    [pc |-> "idle", op |-> "none", key |-> "args", arg |-> EmptyDict,
     value |-> EmptyDict,
     value_update |-> FALSE, expire |-> DefaultExpire, tag |-> NoTag,
     orig |-> EmptyDict, got |-> EmptyDict]

\* line 250: value = utils.merge_dict(orig, value)
MergedValueSwapped(orig, value) == merge_dict(value, orig)

MergedValue(orig, value) == merge_dict(orig, value)

\* a job thread calls set_cache(cache, key, value, value_update, expire, tag)
SetCacheCall(t, key, value, value_update, expire, tag) ==
    /\ thr[t].pc = "idle"
    /\ thr' = [thr EXCEPT ![t] =
           [@ EXCEPT !.pc = IF value_update THEN "pop" ELSE "set",
                     !.op = "set_cache", !.key = key, !.arg = value,
                     !.value = value,
                     !.value_update = value_update, !.expire = expire,
                     !.tag = tag]]
    /\ UNCHANGED <<cache, cache0, now, statusVars, imageVars, blueprintVars>>

\* lines 248-250: orig = cache.pop(key, default=dict()), then the merge
SetCachePop(t) ==
    /\ thr[t].pc = "pop"
    /\ LET orig == CachePopValue(cache, thr[t].key, EmptyDict, now)
       IN thr' = [thr EXCEPT ![t] =
              [@ EXCEPT !.pc = "set", !.orig = orig,
                        !.value = MergedValue(orig, thr[t].value)]]
    /\ cache' = CachePopCache(cache, thr[t].key)
    /\ UNCHANGED <<cache0, now, statusVars, imageVars, blueprintVars>>

SetCacheSetDefaultExpire(t) ==
    /\ thr[t].pc = "set"
    /\ cache' = CacheSet(cache, thr[t].key, thr[t].value, thr[t].tag,
                         DefaultExpire, now)
    /\ thr' = [thr EXCEPT ![t].pc = "done"]
    /\ UNCHANGED <<cache0, now, statusVars, imageVars, blueprintVars>>

SetCacheSetKeepsTag(t) ==
    /\ thr[t].pc = "set"
    /\ cache' = CacheSet(cache, thr[t].key, thr[t].value,
                         IF thr[t].value_update /\ cache0[thr[t].key].present
                         THEN cache0[thr[t].key].tag ELSE thr[t].tag,
                         thr[t].expire, now)
    /\ thr' = [thr EXCEPT ![t].pc = "done"]
    /\ UNCHANGED <<cache0, now, statusVars, imageVars, blueprintVars>>

\* line 252: cache.set(key, value, tag=tag, expire=expire)
SetCacheSet(t) ==
    /\ thr[t].pc = "set"
    /\ cache' = CacheSet(cache, thr[t].key, thr[t].value, thr[t].tag,
                         thr[t].expire, now)
    /\ thr' = [thr EXCEPT ![t].pc = "done"]
    /\ UNCHANGED <<cache0, now, statusVars, imageVars, blueprintVars>>

\* a job thread reads a key: cache.get(key), the default being None
NoneValue == Leaf(0)
GetCall(t, key) ==
    /\ thr[t].pc = "idle"
    /\ thr' = [thr EXCEPT ![t] =
           [@ EXCEPT !.pc = "done", !.op = "get", !.key = key,
                     !.got = CacheGet(cache, key, NoneValue, now)]]
    /\ UNCHANGED <<cache, cache0, now, statusVars, imageVars, blueprintVars>>

\* time passes
Tick ==
    /\ now < MaxTicks * TickSeconds
    /\ now' = now + TickSeconds
    /\ UNCHANGED <<cache, cache0, thr, statusVars, imageVars, blueprintVars>>

----------------------------------------------------------------------------
(* Strings: a string (or bytes value) is a sequence of atoms, an atom being
   a whitespace character or a piece of text without whitespace. *)

Whitespace == {" ", "\n"}

RECURSIVE LStrip(_)
LStrip(str) ==
    IF str # <<>> /\ Head(str) \in Whitespace THEN LStrip(Tail(str)) ELSE str

RECURSIVE RStrip(_)
RStrip(str) ==
    IF str # <<>> /\ str[Len(str)] \in Whitespace
    THEN RStrip(SubSeq(str, 1, Len(str) - 1))
    ELSE str

\* str.strip()
Strip(str) == RStrip(LStrip(str))

\* sep.join(parts)
RECURSIVE Join(_, _)
Join(sep, parts) ==
    IF parts = <<>> THEN <<>>
    ELSE IF Len(parts) = 1 THEN parts[1]
    ELSE parts[1] \o sep \o Join(sep, Tail(parts))

\* str.split(): the maximal pieces without whitespace
RECURSIVE Split(_)
Split(str) ==
    IF str = <<>> THEN <<>>
    ELSE IF Head(str) \in Whitespace THEN Split(Tail(str))
    ELSE <<Head(str)>> \o Split(Tail(str))

\* bytes.decode(): fails on a byte that is not UTF-8
InvalidByte == "\\xff"
Decodable(bytes) == \A i \in 1..Len(bytes) : bytes[i] # InvalidByte

----------------------------------------------------------------------------
(* ComponentBase.args, sanitized_args, exec_parser and server:
   src/directord/components/__init__.py 160-225, 311-324;
   the image component: src/components/container_image.py *)

ActionFlags == {"--pull", "--push", "--tag", "--list", "--inspect"}
Tokens == ActionFlags \cup
          {"--skip-cache", "--run-once", "--timeout", "30", "--exec-help",
           "--bogus", "a", "b"}
OptionLike(tok) == tok \notin {"30", "a", "b"}

\* --timeout, default=600
DefaultTimeout == 600

\* the destination of an option in the namespace
Dest(tok) ==
    CASE tok = "--pull" -> "pull" [] tok = "--push" -> "push"
      [] tok = "--tag" -> "tag" [] tok = "--list" -> "list"
      [] tok = "--inspect" -> "inspect"
      [] tok = "--skip-cache" -> "skip_cache"
      [] tok = "--run-once" -> "run_once"
      [] OTHER -> "timeout"

\* the namespace before any token is read: the defaults of args()
DefaultNamespace ==
    [k \in {"skip_cache", "run_once", "timeout", "pull", "push", "tag",
            "list", "inspect", "images"} |->
        IF k = "timeout" THEN DefaultTimeout
        ELSE IF k = "images" THEN <<>>
        ELSE FALSE]

\* type=int of --timeout
IsInt(tok) == tok = "30"
IntOf(tok) == 30

\* sanitized_args(execute): every fragment split on whitespace, flattened
RECURSIVE sanitized_args(_)
sanitized_args(execute) ==
    IF execute = <<>> THEN <<>>
    ELSE Split(Head(execute)) \o sanitized_args(Tail(execute))

\* the end of the run of positional tokens that starts at i
RECURSIVE RunEnd(_, _)
RunEnd(toks, i) ==
    IF i <= Len(toks) /\ ~OptionLike(toks[i]) THEN RunEnd(toks, i + 1) ELSE i

\* parser.parse_known_args(toks) for the parser args() builds: the tokens
\* are read in order. An action flag conflicts with a different action flag
\* read before (the mutually exclusive group); --timeout takes one integer;
\* --exec-help prints the help and exits; the first run of positionals is
\* images, later positionals and unknown options are the unknown arguments.
RECURSIVE ParseFrom(_, _, _)
ParseFrom(toks, i, st) ==
    IF i > Len(toks) THEN st
    ELSE LET tok == toks[i]
         IN IF ~OptionLike(tok)
            THEN LET j == RunEnd(toks, i)
                     run == SubSeq(toks, i, j - 1)
                 IN IF st.images_done
                    THEN ParseFrom(toks, j, [st EXCEPT !.unknown = @ \o run])
                    ELSE ParseFrom(toks, j,
                             [st EXCEPT !.ns = [@ EXCEPT !["images"] = run],
                                        !.images_done = TRUE])
            ELSE IF tok \in ActionFlags
            THEN IF st.group \notin {"none", tok}
                 THEN [st EXCEPT !.status = "error"]
                 ELSE ParseFrom(toks, i + 1,
                          [st EXCEPT !.ns = [@ EXCEPT ![Dest(tok)] = TRUE],
                                     !.group = tok])
            ELSE IF tok \in {"--skip-cache", "--run-once"}
            THEN ParseFrom(toks, i + 1,
                     [st EXCEPT !.ns = [@ EXCEPT ![Dest(tok)] = TRUE]])
            ELSE IF tok = "--timeout"
            THEN IF i + 1 <= Len(toks) /\ IsInt(toks[i + 1])
                 THEN ParseFrom(toks, i + 2,
                          [st EXCEPT !.ns = [@ EXCEPT !["timeout"] =
                                                 IntOf(toks[i + 1])]])
                 ELSE [st EXCEPT !.status = "error"]
            ELSE IF tok = "--exec-help"
            THEN [st EXCEPT !.status = "help"]
            ELSE ParseFrom(toks, i + 1, [st EXCEPT !.unknown = Append(@, tok)])

parse_known_args(toks) ==
    ParseFrom(toks, 1,
        [status |-> "ok", ns |-> DefaultNamespace, unknown |-> <<>>,
         group |-> "none", images_done |-> FALSE])

\* exec_parser lines 192-194: every item of arg_vars is written into the
\* namespace
Overlay(ns, arg_vars) ==
    [k \in DOMAIN ns \cup DOMAIN arg_vars |->
        IF k \in DOMAIN arg_vars THEN arg_vars[k] ELSE ns[k]]

\* exec_parser(parser, exec_string, arg_vars): parse_known_args exits
\* (SystemExit) on an argument error and on --exec-help
exec_parser(exec_string, arg_vars) ==
    LET p == parse_known_args(sanitized_args(exec_string))
    IN IF p.status # "ok"
       THEN [exc |-> "SystemExit", known_args |-> <<>>, unknown_args |-> <<>>]
       ELSE [exc |-> "none", known_args |-> Overlay(p.ns, arg_vars),
             unknown_args |-> p.unknown]

\* data[key] = value
SetItem(data, key, value) ==
    [k \in DOMAIN data \cup {key} |-> IF k = key THEN value ELSE data[k]]

\* container_image.py 72-102: the part of Component.server after the call
\* of the base class
ServerBody(known_args, data) ==
    LET d1 == SetItem(data, "images", known_args["images"])
        d2 == IF known_args["pull"] THEN SetItem(d1, "action", "pull")
              ELSE IF known_args["push"] THEN SetItem(d1, "action", "push")
              ELSE IF known_args["tag"] THEN SetItem(d1, "action", "tag")
              ELSE IF known_args["list"] THEN SetItem(d1, "action", "list")
              ELSE IF known_args["inspect"]
                   THEN SetItem(d1, "action", "inspect")
              ELSE d1
        d3 == SetItem(d2, "images", known_args["images"])
        n == Len(known_args["images"])
    IN IF known_args["tag"] /\ n # 2
       THEN [exc |-> "AttributeError",
             msg |-> <<"Must specify exactly 2 images to tag.">>,
             data |-> d3]
       ELSE IF (known_args["push"] \/ known_args["pull"]
                   \/ known_args["inspect"]) /\ n = 0
       THEN [exc |-> "AttributeError",
             msg |-> <<"Must specify exactly at least one image to %s.",
                       d3["action"]>>,
             data |-> d3]
       ELSE IF known_args["list"] /\ n # 0
       THEN [exc |-> "AttributeError",
             msg |-> <<"Cannot specify images with --list.">>,
             data |-> d3]
       ELSE [exc |-> "none", msg |-> <<>>, data |-> d3]

\* the parameters of ComponentBase.server (line 311), besides self
BaseServerParameters == {"exec_string", "data", "arg_vars"}
\* the keywords Component.server passes to it (container_image.py line 71)
SuperServerKeywords == {"exec_array", "data", "arg_vars"}

\* a call binds when every keyword names a parameter; otherwise Python
\* raises TypeError before the callee runs
Binds(keywords, parameters) == keywords \subseteq parameters

\* Component.server(exec_array, data, arg_vars): the outcome of the call
ServerWritesFirst(exec_array, data, arg_vars) ==
    [exc |-> "TypeError", msg |-> <<"unexpected keyword argument">>,
     data |-> SetItem(data, "images", <<>>),
     known_args |-> <<>>, unknown_args |-> <<>>]

ServerOutcome(exec_array, data, arg_vars) ==
    IF ~Binds(SuperServerKeywords, BaseServerParameters)
    THEN [exc |-> "TypeError", msg |-> <<"unexpected keyword argument">>,
          data |-> data, known_args |-> <<>>, unknown_args |-> <<>>]
    ELSE LET p == exec_parser(exec_array, arg_vars)
         IN IF p.exc # "none"
            THEN [exc |-> p.exc, msg |-> <<>>, data |-> data,
                  known_args |-> <<>>, unknown_args |-> <<>>]
            ELSE LET b == ServerBody(p.known_args, data)
                 IN [exc |-> b.exc, msg |-> b.msg, data |-> b.data,
                     known_args |-> p.known_args,
                     unknown_args |-> p.unknown_args]

NoData == [k \in {} |-> ""]

IdleServer ==
    [pc |-> "idle", exec_array |-> <<>>, arg_vars |-> NoData,
     data |-> NoData, exc |-> "none", msg |-> <<>>,
     known_args |-> <<>>, unknown_args |-> <<>>]

\* the exec strings: up to MaxTokens tokens, given as one fragment with the
\* tokens separated by blanks, or as one fragment per token
OneFragment(toks) == <<Join(<<" ">>, [i \in 1..Len(toks) |-> <<toks[i]>>])>>
PerToken(toks) == [i \in 1..Len(toks) |-> <<toks[i]>>]
ExecArray(toks, fragments) ==
    IF fragments = "one" THEN OneFragment(toks) ELSE PerToken(toks)

\* the overlays a caller passes as arg_vars
ArgVars ==
    {NoData,
     [k \in {"images"} |-> <<"a", "b">>],
     [k \in {"images"} |-> <<>>],
     [k \in {"pull"} |-> TRUE],
     [k \in {"list"} |-> TRUE]}

\* a control-side caller invokes server() on a fresh data mapping; calls are
\* modelled one at a time, each from the initial state
Server ==
    /\ srv.pc = "idle" /\ cli.pc = "idle"
    /\ \E n \in 0..MaxTokens : \E toks \in [1..n -> Tokens] :
       \E fragments \in {"one", "each"}, arg_vars \in ArgVars :
           LET exec_array == ExecArray(toks, fragments)
               r == ServerOutcome(exec_array, NoData, arg_vars)
           IN srv' = [pc |-> IF r.exc = "none" THEN "returned" ELSE "raised",
                      exec_array |-> exec_array, arg_vars |-> arg_vars,
                      data |-> r.data, exc |-> r.exc, msg |-> r.msg,
                      known_args |-> r.known_args,
                      unknown_args |-> r.unknown_args]
    /\ UNCHANGED <<cli, statusVars, cacheVars, blueprintVars>>

----------------------------------------------------------------------------
(* ComponentBase.run_command and Component.client:
   src/directord/components/__init__.py 46-109,
   src/components/container_image.py 104-125 *)

Some(x) == [none |-> FALSE, val |-> x]
None == [none |-> TRUE, val |-> <<>>]

\* what a process does: its captured output and error, and its return code
Process(output, error, returncode) ==
    [output |-> output, error |-> error, returncode |-> returncode]

\* return_codes=None becomes [0]
DefaultReturnCodes == {0}

\* run_command(command): (output, error, returncode in return_codes)
run_command(process, return_codes) ==
    <<process.output, process.error, process.returncode \in return_codes>>

LookupCommand == <<"command", " ", "-v", " ", "podman">>
PodmanPath == <<"/usr/bin/podman">>
NotFoundMessage == <<"Unable to find podman binary.">>

\* what "command -v podman" may do: print nothing or only a newline and
\* fail, print the path, or print bytes that are not UTF-8
LookupProcesses ==
    {Process(<<>>, <<>>, 1),
     Process(<<"\n">>, <<"sh: command: not found">>, 127),
     Process(PodmanPath \o <<"\n">>, <<>>, 0),
     Process(<<InvalidByte, "\n">>, <<>>, 0)}

\* what the podman command may do
CommandProcesses ==
    {Process(<<"ok">>, <<>>, 0),
     Process(<<>>, <<"Error: no such image">>, 125),
     Process(<<"partial">>, <<"Error: unauthorized">>, 1)}

IdleClient ==
    [pc |-> "idle", job |-> NoData, lookup |-> Process(<<>>, <<>>, 0),
     process |-> Process(<<>>, <<>>, 0),
     output |-> None, error |-> <<>>, success |-> FALSE, command |-> <<>>,
     exc |-> "none", runs |-> <<>>]

\* Component.client(cache, job): the outcome of the call, given what the
\* two processes do
ClientRunsAnyway(job, lookup, process) ==
    LET r2 == run_command(process, DefaultReturnCodes)
        command == <<"image">>
    IN [exc |-> "none", output |-> Some(r2[1]), error |-> r2[2],
        success |-> r2[3], command |-> command,
        runs |-> <<LookupCommand, command>>]

ClientOutcome(job, lookup, process) ==
    LET r1 == run_command(lookup, DefaultReturnCodes)
        podman_bin == r1[1]
        error == r1[2]
    IN IF ~Decodable(podman_bin)
       THEN [exc |-> "UnicodeDecodeError", output |-> None, error |-> <<>>,
             success |-> FALSE, command |-> <<>>, runs |-> <<LookupCommand>>]
       ELSE IF Strip(podman_bin) = <<>>
       THEN [exc |-> "none", output |-> None, error |-> error,
             success |-> FALSE, command |-> NotFoundMessage,
             runs |-> <<LookupCommand>>]
       ELSE IF "action" \notin DOMAIN job \/ "images" \notin DOMAIN job
       THEN [exc |-> "KeyError", output |-> None, error |-> <<>>,
             success |-> FALSE, command |-> <<>>, runs |-> <<LookupCommand>>]
       ELSE LET command ==
                    Join(<<" ">>,
                         <<Strip(podman_bin), <<"image">>, <<job["action"]>>,
                           Join(<<" ">>, [i \in 1..Len(job["images"]) |->
                                            <<job["images"][i]>>])>>)
                r2 == run_command(process, DefaultReturnCodes)
            IN [exc |-> "none", output |-> Some(r2[1]), error |-> r2[2],
                success |-> r2[3], command |-> command,
                runs |-> <<LookupCommand, command>>]

\* the job records a worker may receive: the fields server() writes, with
\* or without an action
Actions == {"pull", "push", "tag", "list", "inspect"}
ImageLists == UNION {[1..n -> {"a", "b"}] : n \in 0..MaxImages}
JobRecords ==
    {[k \in {"images"} |-> imgs] : imgs \in ImageLists} \cup
    {[k \in {"action", "images"} |-> IF k = "action" THEN a ELSE imgs] :
        a \in Actions, imgs \in ImageLists}

\* a worker invokes client() on the job it received; calls are modelled one
\* at a time, each from the initial state
Client ==
    /\ srv.pc = "idle" /\ cli.pc = "idle"
    /\ \E job \in JobRecords, lookup \in LookupProcesses,
          process \in CommandProcesses :
           LET r == ClientOutcome(job, lookup, process)
           IN cli' = [pc |-> IF r.exc = "none" THEN "returned" ELSE "raised",
                      job |-> job, lookup |-> lookup, process |-> process,
                      output |-> r.output, error |-> r.error,
                      success |-> r.success, command |-> r.command,
                      exc |-> r.exc, runs |-> r.runs]
    /\ UNCHANGED <<srv, statusVars, cacheVars, blueprintVars>>

----------------------------------------------------------------------------
(* Specifications *)

----------------------------------------------------------------------------
(* ComponentBase.blueprinter and file_blueprinter:
   src/directord/components/__init__.py 254-304 *)

\* A text is a sequence of pieces. In a template, "{{ a }}" and "{{ m }}"
\* print a variable, "{{ m.x }}" prints an attribute of a variable and
\* "{% if" is a block tag that is never closed.
Atoms == {"text", "\n", "{{ a }}", "{{ m }}", "{{ m.x }}", "{% if"}
Contents == UNION {[1..n -> Atoms] : n \in 0..MaxContent}

\* the values a caller may pass: None, mappings, and a number
BlueprintValues == {NoneValue, EmptyDict, OldValue, Leaf(7)} \cup NewValues

\* "if values:", the truth value of None, a number or a mapping
Truthy(x) == IF IsDict(x) THEN DOMAIN x.v # {} ELSE x.v # 0

\* the variable a piece of a template refers to, "" for plain text
Variable(atom) ==
    CASE atom = "{{ a }}" -> "a"
      [] atom \in {"{{ m }}", "{{ m.x }}"} -> "m"
      [] OTHER -> ""

Defined(values, name) == IsDict(values) /\ name \in DOMAIN values.v

\* the text a value prints as
Show(x) == IF IsDict(x) THEN "{...}" ELSE ToString(x.v)

\* self.blueprint.from_string(content): an unclosed block tag is a template
\* syntax error
SyntaxOk(content) == \A i \in 1..Len(content) : content[i] # "{% if"

\* The environment of line 41 is built without "undefined=", so a variable
\* that is not in values prints as empty text; only the access to an
\* attribute of such a variable raises.
Raises(atom, values) == atom = "{{ m.x }}" /\ ~Defined(values, "m")

RenderAtom(atom, values) ==
    IF Variable(atom) = "" THEN <<atom>>
    ELSE IF atom = "{{ m.x }}" \/ ~Defined(values, Variable(atom)) THEN <<>>
    ELSE <<Show(values.v[Variable(atom)])>>

\* a template drops one newline at the very end of its source
StripNewline(content) ==
    IF Len(content) > 0 /\ content[Len(content)] = "\n"
    THEN SubSeq(content, 1, Len(content) - 1)
    ELSE content

RECURSIVE RenderPieces(_, _)
RenderPieces(content, values) ==
    IF content = <<>> THEN <<>>
    ELSE RenderAtom(Head(content), values) \o RenderPieces(Tail(content), values)

\* _contents.render(**values)
render(content, values) == RenderPieces(StripNewline(content), values)

\* lines 294-295 raise: a syntax error in from_string, values that are no
\* mapping in "**values", an attribute of an undefined variable in render
RenderFails(content, values) ==
    \/ ~SyntaxOk(content)
    \/ ~IsDict(values)
    \/ \E i \in 1..Len(content) : Raises(content[i], values)

\* blueprinter(content, values): Some(text), or None after a failure
blueprinterAlwaysRenders(content, values) ==
    IF RenderFails(content, values)
    THEN None
    ELSE Some(render(content, values))

blueprinter(content, values) ==
    IF Truthy(values)
    THEN IF RenderFails(content, values)
         THEN None
         ELSE Some(render(content, values))
    ELSE Some(content)

\* The file: its text, whether open(file_to) and read succeed, and how the
\* write goes: "ok", "denied" (open for writing raises) or "fails" (the write
\* raises after open(file_to, "w") has emptied the file).
WriteModes == {"ok", "denied", "fails"}
Files == [content : Contents, readable : BOOLEAN, write : WriteModes]

\* file_blueprinter(cache, file_to), values being cache.get("args"): the
\* value returned and the file left behind
file_blueprinterWritesAnything(values, f) ==
    IF ~f.readable THEN [ret |-> FALSE, file |-> f]
    ELSE LET file_contents == blueprinter(f.content, values)
         IN CASE f.write = "ok" ->
                     [ret |-> TRUE,
                      file |-> [f EXCEPT !.content = file_contents.val]]
              [] f.write = "denied" -> [ret |-> FALSE, file |-> f]
              [] f.write = "fails" ->
                     [ret |-> FALSE, file |-> [f EXCEPT !.content = <<>>]]

file_blueprinter(values, f) ==
    IF ~f.readable THEN [ret |-> FALSE, file |-> f]
    ELSE LET file_contents == blueprinter(f.content, values)
         IN IF file_contents = None \/ file_contents.val = <<>>
            THEN [ret |-> FALSE, file |-> f]
            ELSE CASE f.write = "ok" ->
                          [ret |-> TRUE,
                           file |-> [f EXCEPT !.content = file_contents.val]]
                   [] f.write = "denied" -> [ret |-> FALSE, file |-> f]
                   [] f.write = "fails" ->
                          [ret |-> FALSE, file |-> [f EXCEPT !.content = <<>>]]

IdleBlueprint ==
    [pc |-> "idle", op |-> "none", content |-> <<>>, values |-> NoneValue,
     result |-> None, ret |-> FALSE]

\* a caller renders the text it holds, here the text of the file
Blueprinter ==
    /\ bp.pc = "idle"
    /\ \E values \in BlueprintValues :
           bp' = [pc |-> "done", op |-> "blueprinter",
                  content |-> file.content, values |-> values,
                  result |-> blueprinter(file.content, values),
                  ret |-> FALSE]
    /\ UNCHANGED <<file, statusVars, cacheVars, imageVars>>

\* a caller blueprints the file against the cache's "args"
FileBlueprinter ==
    /\ bp.pc = "idle"
    /\ LET values == CacheGet(cache, "args", NoneValue, now)
           out == file_blueprinter(values, file)
       IN /\ file' = out.file
          /\ bp' = [pc |-> "done", op |-> "file_blueprinter",
                    content |-> file.content, values |-> values,
                    result |-> IF file.readable
                               THEN blueprinter(file.content, values)
                               ELSE None,
                    ret |-> out.ret]
    /\ UNCHANGED <<statusVars, cacheVars, imageVars>>

----------------------------------------------------------------------------

\* the entries "args" may hold before the calls: OldValue, written with
\* either tag, its expiry already elapsed at time 0 or still to come
StartEntries ==
    {NoEntry} \cup
    {Entry(OldValue, g, x) : g \in Tags, x \in {0, TickSeconds, DefaultExpire}}

InitStatus ==
    /\ channel = <<>>
    /\ session = [j \in Jobs |-> NoSession]
    /\ now = 0
    /\ thr = [t \in Threads |-> IdleThread]
    /\ cache = [k \in Keys |-> NoEntry]
    /\ cache0 = cache
    /\ srv = IdleServer
    /\ cli = IdleClient
    /\ file = [content |-> <<>>, readable |-> TRUE, write |-> "ok"]
    /\ bp = IdleBlueprint

InitCache ==
    /\ channel = <<>>
    /\ session = [j \in Jobs |-> NoSession]
    /\ now = 0
    /\ thr = [t \in Threads |-> IdleThread]
    /\ \E e \in StartEntries :
           cache = [k \in Keys |-> IF k = "args" THEN e ELSE NoEntry]
    /\ cache0 = cache
    /\ srv = IdleServer
    /\ cli = IdleClient
    /\ file = [content |-> <<>>, readable |-> TRUE, write |-> "ok"]
    /\ bp = IdleBlueprint

InitImage ==
    /\ channel = <<>>
    /\ session = [j \in Jobs |-> NoSession]
    /\ now = 0
    /\ thr = [t \in Threads |-> IdleThread]
    /\ cache = [k \in Keys |-> NoEntry]
    /\ cache0 = cache
    /\ srv = IdleServer
    /\ cli = IdleClient
    /\ file = [content |-> <<>>, readable |-> TRUE, write |-> "ok"]
    /\ bp = IdleBlueprint

\* the entries of "args" a file is blueprinted against
BlueprintEntries ==
    StartEntries \cup
    {Entry(v, NoTag, DefaultExpire) : v \in NewValues \cup {EmptyDict}}

InitBlueprint ==
    /\ channel = <<>>
    /\ session = [j \in Jobs |-> NoSession]
    /\ now = 0
    /\ thr = [t \in Threads |-> IdleThread]
    /\ \E e \in BlueprintEntries :
           cache = [k \in Keys |-> IF k = "args" THEN e ELSE NoEntry]
    /\ cache0 = cache
    /\ srv = IdleServer
    /\ cli = IdleClient
    /\ file \in Files
    /\ bp = IdleBlueprint

StatusNext ==
    \E j \in Jobs :
        \/ ClientStatusInit(j)
        \/ \E s \in JobStates : BodySetJobState(j, s)
        \/ \E i \in Infos : BodySetInfo(j, i)
        \/ BodyReturn(j)
        \/ BodyRaise(j)
        \/ ClientStatusExit(j)

CacheNext ==
    \/ \E t \in Threads :
        \/ \E key \in Keys, value \in NewValues, value_update \in BOOLEAN,
              o \in CallOptions :
               SetCacheCall(t, key, value, value_update, o.expire, o.tag)
        \/ SetCachePop(t)
        \/ SetCacheSet(t)
        \/ \E key \in Keys : GetCall(t, key)
    \/ Tick

SpecStatus == InitStatus /\ [][StatusNext]_vars

SpecCache == InitCache /\ [][CacheNext]_vars

ImageNext == Server \/ Client

SpecImage == InitImage /\ [][ImageNext]_vars

BlueprintNext == Blueprinter \/ FileBlueprinter

SpecBlueprint == InitBlueprint /\ [][BlueprintNext]_vars

----------------------------------------------------------------------------
(* Claims about ClientStatus *)

\* the messages on the channel that carry job id j, in the order sent
RECURSIVE MessagesOf(_, _)
MessagesOf(chan, j) ==
    IF chan = <<>> THEN <<>>
    ELSE LET rest == MessagesOf(Tail(chan), j)
         IN IF Head(chan)[1] = j THEN <<Head(chan)>> \o rest ELSE rest

StartMessage(j) == <<j, job_processing, nullbyte>>

\* C1: per session, exactly two messages carry the job id: the start message
\* [job_id, processing, null] is on the channel from acquisition on (so
\* before any write of the body), it is the only one while the body runs,
\* and after scope exit, normal or by a raise, there is exactly one more.
C1_TwoMessages ==
    \A j \in Jobs :
        LET m == MessagesOf(channel, j)
        IN /\ session[j].pc = "none" => Len(m) = 0
           /\ session[j].pc \in {"body", "exiting"} =>
                  Len(m) = 1 /\ m[1] = StartMessage(j)
           /\ session[j].wrote => Len(m) >= 1 /\ m[1] = StartMessage(j)
           /\ session[j].pc = "exited" =>
                  Len(m) = 2 /\ m[1] = StartMessage(j)

\* a session whose body wrote and then raised has exited, while the other
\* job's session has sent its start message in between
C1_Witness ==
    /\ session[1].pc = "exited" /\ session[1].exc /\ session[1].wrote
    /\ session[2].pc = "body"
    /\ Len(channel) = 3 /\ channel[2][1] = 2

\* C2: the terminal message carries the values of job_state and info last
\* written in the session, and the placeholder in both frames when the body
\* wrote neither.
C2_TerminalValues ==
    \A j \in Jobs :
        session[j].pc = "exited" =>
            LET m == MessagesOf(channel, j)
            IN /\ Len(m) >= 2
               /\ m[Len(m)] = <<j, session[j].job_state, session[j].info>>
               /\ ~session[j].wrote =>
                      m[Len(m)] = <<j, nullbyte, nullbyte>>

\* a body that set a state and raised before setting info: the terminal
\* message has the state written and the placeholder as info
C2_Witness ==
    /\ session[1].pc = "exited" /\ session[1].exc
    /\ session[1].wrote
    /\ MessagesOf(channel, 1)[2] = <<1, "JOB_FAILED", nullbyte>>

\* C18: when the body raises, the terminal message is sent and the exception
\* then reaches the caller of the scope: a raise never becomes a normal
\* return, and a caller sees the raise only with the terminal message sent.
C18_RaisePropagates ==
    \A j \in Jobs :
        /\ (session[j].pc = "exited" /\ session[j].exc) =>
               /\ session[j].caller = "raised"
               /\ Len(MessagesOf(channel, j)) = 2
        /\ session[j].caller = "raised" =>
               /\ session[j].exc
               /\ MessagesOf(channel, j)[2] =
                      <<j, session[j].job_state, session[j].info>>
        /\ session[j].caller = "returned" => ~session[j].exc

\* a body that wrote the failed state and raised: the caller has the raise,
\* with the terminal message on the channel
C18_Witness ==
    /\ session[2].pc = "exited" /\ session[2].exc
    /\ session[2].caller = "raised"
    /\ session[2].job_state = "JOB_FAILED"
    /\ MessagesOf(channel, 2)[2] = <<2, "JOB_FAILED", session[2].info>>

----------------------------------------------------------------------------
(* Claims about set_cache *)

\* thread t has completed a merge-update, set_cache(key, arg, value_update=True)
MergeUpdateDone(t, k) ==
    /\ thr[t].pc = "done" /\ thr[t].op = "set_cache"
    /\ thr[t].value_update /\ thr[t].key = k

\* the value key k held before the calls, as a merge-update reads it
Original(k) == CacheGet(cache0, k, EmptyDict, 0)

\* C3: when two threads merge-update the same key concurrently, the value
\* finally stored is the merge of the original value with both updates (in
\* one order or the other), in every interleaving.
C3_NoLostUpdate ==
    \A k \in Keys :
        (now = 0 /\ MergeUpdateDone("t1", k) /\ MergeUpdateDone("t2", k)) =>
            /\ cache[k].present
            /\ cache[k].value \in
                 {merge_dict(merge_dict(Original(k), thr["t1"].arg), thr["t2"].arg),
                  merge_dict(merge_dict(Original(k), thr["t2"].arg), thr["t1"].arg)}

\* C4: a merge-update that runs alone stores the recursive merge of the old
\* and the new mapping when the key holds an unexpired mapping, and the new
\* mapping alone when the key is absent or its entry has expired.
C4_MergeUpdate ==
    \A t \in Threads, k \in Keys :
        (MergeUpdateDone(t, k) /\ \A u \in Threads \ {t} : thr[u].pc = "idle") =>
            /\ cache[k].present
            /\ Live(cache0, k, now) =>
                   cache[k].value = merge_dict(cache0[k].value, thr[t].arg)
            /\ (~cache0[k].present \/ cache0[k].expires <= 0) =>
                   cache[k].value = thr[t].arg

\* {"a": 1, "b": {"c": 2}} merge-updated with {"b": {"d": 3}} is stored as
\* {"a": 1, "b": {"c": 2, "d": 3}}
C4_Witness ==
    /\ MergeUpdateDone("t1", "args") /\ thr["t2"].pc = "idle"
    /\ Live(cache0, "args", now)
    /\ thr["t1"].arg = One("b", One("d", Leaf(3)))
    /\ cache["args"].value =
           Dict([k \in {"a", "b"} |->
                   IF k = "a" THEN Leaf(1)
                   ELSE Dict([i \in {"c", "d"} |->
                                IF i = "c" THEN Leaf(2) ELSE Leaf(3)])])

----------------------------------------------------------------------------
(* Claims about the image component *)

\* the tokens of the request server() was called with
RequestTokens == sanitized_args(srv.exec_array)

\* a request made of one action flag followed by images, without overlay
FlagThenImages(flag) ==
    /\ srv.pc # "idle"
    /\ srv.arg_vars = NoData
    /\ RequestTokens # <<>> /\ Head(RequestTokens) = flag
    /\ \A i \in 2..Len(RequestTokens) : ~OptionLike(RequestTokens[i])

\* C6: server() raises on --tag with other than 2 images (with the message
\* "Must specify exactly 2 images to tag."), on --list with images and on
\* --pull, --push, --inspect without images, and it returns the record
\* {action: tag, images: [x, y]} for --tag x y.
C6_ServerValidates ==
    LET images == Tail(RequestTokens)
    IN /\ (FlagThenImages("--tag") /\ Len(images) # 2) =>
              /\ srv.pc = "raised"
              /\ srv.msg = <<"Must specify exactly 2 images to tag.">>
       /\ (FlagThenImages("--list") /\ Len(images) > 0) => srv.pc = "raised"
       /\ \A flag \in {"--pull", "--push", "--inspect"} :
              (FlagThenImages(flag) /\ Len(images) = 0) => srv.pc = "raised"
       /\ (FlagThenImages("--tag") /\ Len(images) = 2) =>
              /\ srv.pc = "returned"
              /\ srv.data = [k \in {"action", "images"} |->
                               IF k = "action" THEN "tag" ELSE images]

NoPath == Decodable(cli.lookup.output) /\ Strip(cli.lookup.output) = <<>>

\* C10: when the lookup yields no path, client() returns (None, the error
\* of the lookup, False, "Unable to find podman binary.") and the lookup is
\* the only command run.
C10_MissingBinary ==
    (cli.pc # "idle" /\ NoPath) =>
        /\ cli.pc = "returned"
        /\ cli.output = None
        /\ cli.error = cli.lookup.error
        /\ cli.success = FALSE
        /\ cli.command = NotFoundMessage
        /\ cli.runs = <<LookupCommand>>

\* the lookup printed only a newline, with an error text, for a tag job
C10_Witness ==
    /\ cli.pc = "returned"
    /\ cli.lookup.output = <<"\n">> /\ cli.lookup.error # <<>>
    /\ "action" \in DOMAIN cli.job /\ cli.job["action"] = "tag"
    /\ cli.output = None /\ cli.runs = <<LookupCommand>>

\* a request server() has to accept: one action flag followed by a number
\* of images the action allows, without overlay
ValidRequest ==
    \/ FlagThenImages("--tag") /\ Len(RequestTokens) = 3
    \/ FlagThenImages("--list") /\ Len(RequestTokens) = 1
    \/ \E flag \in {"--pull", "--push", "--inspect"} :
           FlagThenImages(flag) /\ Len(RequestTokens) >= 2

\* C11: for a valid exec string server() returns a record that holds, with
\* action and images, the common options: the skip-cache flag, the run-once
\* flag and the timeout, which is 600 when --timeout is not given.
C11_RecordCarriesOptions ==
    ValidRequest =>
        /\ srv.pc = "returned"
        /\ DOMAIN srv.data =
               {"action", "images", "skip_cache", "run_once", "timeout"}
        /\ srv.data["timeout"] = DefaultTimeout

\* the request holds the help switch
HelpRequested ==
    /\ srv.pc # "idle"
    /\ \E i \in 1..Len(RequestTokens) : RequestTokens[i] = "--exec-help"

\* C16: when the exec string holds --exec-help, server() ends by raising
\* SystemExit, returns no record and leaves the data mapping without a field.
C16_HelpAborts ==
    HelpRequested =>
        /\ srv.pc = "raised"
        /\ srv.exc = "SystemExit"
        /\ srv.data = NoData

----------------------------------------------------------------------------
(* Claims about reads of the cache and the stamp of an entry *)

\* thread t has completed set_cache on key k
SetCacheDone(t, k) ==
    thr[t].pc = "done" /\ thr[t].op = "set_cache" /\ thr[t].key = k

\* thread t reads key k in this step
GetStep(t, k) ==
    /\ thr[t].pc = "idle"
    /\ thr'[t].pc = "done" /\ thr'[t].op = "get" /\ thr'[t].key = k

C15_Step ==
    \A t \in Threads :
        /\ (thr[t].pc = "set" /\ thr'[t].pc = "done") =>
               cache'[thr[t].key] =
                   Entry(thr[t].value, thr[t].tag, now + thr[t].expire)
        /\ \A u \in Threads \ {t}, k \in Keys :
               (SetCacheDone(u, k) /\ GetStep(t, k)) =>
                   /\ cache[k].present /\ cache[k].value = thr[u].value
                   /\ thr'[t].got = IF now < cache[k].expires
                                    THEN thr[u].value
                                    ELSE NoneValue

C17_NeverAbsent ==
    \A t \in Threads, k \in Keys :
        (/\ now = 0 /\ Live(cache0, k, 0)
         /\ thr[t].pc = "done" /\ thr[t].op = "get" /\ thr[t].key = k) =>
            thr[t].got # NoneValue

----------------------------------------------------------------------------
(* Claims about blueprinter and file_blueprinter *)

BlueprinterDone == bp.pc = "done" /\ bp.op = "blueprinter"
FileBlueprinterDone == bp.pc = "done" /\ bp.op = "file_blueprinter"

\* rendering gave a text that is not empty
NonEmptyOutput == bp.result # None /\ bp.result.val # <<>>

\* C12 as stated: file_blueprinter returns True whenever the file can be
\* read and written and rendering did not fail, and with no template values
\* it writes back the identical content for every file content; the file is
\* changed only after a non-empty output, and is unchanged when False is
\* returned after a failed or empty rendering.
C12_FileBlueprinter ==
    FileBlueprinterDone =>
        /\ (file.readable /\ file.write = "ok" /\ bp.result # None) =>
               bp.ret
        /\ (file.readable /\ file.write = "ok" /\ ~Truthy(bp.values)) =>
               bp.ret /\ file.content = bp.content
        /\ file.content # bp.content => NonEmptyOutput
        /\ (~bp.ret /\ ~NonEmptyOutput) => file.content = bp.content

\* C12, amended: file_blueprinter returns True, with the output in the file,
\* whenever the file can be read and written and rendering gave a non-empty
\* text; with no template values that is every file that is not empty, whose
\* content is written back unchanged. The file is changed only after a
\* non-empty output. After a failed or an empty rendering, an empty file
\* with no template values included, it returns False and the file is
\* unchanged.
C12_FileBlueprinterNonEmpty ==
    FileBlueprinterDone =>
        /\ (file.readable /\ file.write = "ok" /\ NonEmptyOutput) =>
               bp.ret /\ file.content = bp.result.val
        /\ (/\ file.readable /\ file.write = "ok"
            /\ ~Truthy(bp.values) /\ bp.content # <<>>) =>
               bp.ret /\ file.content = bp.content
        /\ file.content # bp.content => NonEmptyOutput
        /\ ~NonEmptyOutput => ~bp.ret /\ file.content = bp.content

\* a template was rendered against the cached values and written over the
\* file, whose text is now another one
C12_Witness ==
    /\ FileBlueprinterDone /\ bp.ret
    /\ bp.content = <<"text", "{{ a }}">> /\ Defined(bp.values, "a")
    /\ file.content = <<"text", Show(bp.values.v["a"])>>
    /\ file.content # bp.content

\* C13: with values None or an empty mapping, blueprinter returns the
\* content as it was given, for every content, and never None.
C13_PassThrough ==
    (BlueprinterDone /\ bp.values \in {NoneValue, EmptyDict}) =>
        bp.result # None /\ bp.result = Some(bp.content)

\* a text with a variable, a broken tag and nothing else came back as given
\* from a call with an empty mapping
C13_Witness ==
    /\ BlueprinterDone /\ bp.values = EmptyDict
    /\ bp.content = <<"{{ a }}", "{% if">>
    /\ bp.result = Some(bp.content)

\* the template refers to a variable that values does not hold
UndefinedVariable(content, values) ==
    \E i \in 1..Len(content) :
        Variable(content[i]) # "" /\ ~Defined(values, Variable(content[i]))

\* C14: with non-empty values, a template with a syntax error or with an
\* undefined variable makes blueprinter return None, and every other call
\* returns the rendered text or the unchanged content.
C14_FailureIsNone ==
    (BlueprinterDone /\ Truthy(bp.values)) =>
        /\ (~SyntaxOk(bp.content) \/ UndefinedVariable(bp.content, bp.values)) =>
               bp.result = None
        /\ bp.result \in {None, Some(bp.content),
                          Some(render(bp.content, bp.values))}

====
